---- MODULE Spec2Model ----
(***************************************************************************)
(* Model of tools/db/byfltables.py: the Byfl schema provisioning script.   *)
(*                                                                         *)
(* The script connects to a MySQL server, selects database DB_NAME         *)
(* (creating it when the selection fails with ER_BAD_DB_ERROR), executes   *)
(* one CREATE TABLE statement per entry of TABLES, and closes the cursor   *)
(* and the connection.  The server is shared state; each run of the script *)
(* is a process with its own connection, cursor and output.                *)
(***************************************************************************)
EXTENDS Integers, Sequences, FiniteSets, TLC

\* Number of times the script is run against the server.
NumRuns == 2

\* Number of entries of TABLES that are modelled (the source has eight).
NumTables == 3

Runs == 1..NumRuns

\* src line 4
DB_NAME == "byfl3"

\* The keys of TABLES, in declaration order (src lines 8..122).
TableNames ==
  <<"runs", "loadstores", "basicblocks", "instmix",
    "vectorops", "functions", "callee", "derived">>

\* The dictionary TABLES, cut to its first NumTables keys.
TABLES == {TableNames[i] : i \in 1..NumTables}

\* What the server holds under a table name: nothing, a table somebody else
\* defined, or the table as the DDL of TABLES defines it.
TableStates == {"absent", "other", "byfl"}

\* The database on the server: absent, created by somebody else with some
\* other default character set, or with DEFAULT CHARACTER SET 'utf8'.
DbStates == {"absent", "other", "utf8"}

VARIABLES
  db,         \* server: database DB_NAME, a member of DbStates
  tables,     \* server: [TABLES -> TableStates], the tables of DB_NAME
  rejected,   \* server: the entries of TABLES whose DDL the engine rejects
  pc,         \* per run: position in the script
  cnx,        \* per run: the connection, "none" | "open" | "closed"
  cursor,     \* per run: the cursor, "none" | "open" | "closed"
  database,   \* per run: cnx.database, <<>> or <<DB_NAME>>
  todo,       \* per run: the entries of TABLES the loop has not yet visited
  selectLog,  \* per run: results of the database selections, in order
  createLog,  \* per run: results of the CREATE DATABASE statements, in order
  ddlLog,     \* per run: per table, results of the executions of its DDL
  out,        \* per run: per table, the status lines printed for it
  exitCode,   \* per run: <<>> while running, <<c>> once terminated
  preDb,      \* per run: db when the run started
  preTables   \* per run: tables when the run started

vars ==
  <<db, tables, rejected, pc, cnx, cursor, database, todo, selectLog,
    createLog, ddlLog, out, exitCode, preDb, preTables>>

server == <<db, tables, rejected>>

\* Database DB_NAME exists on the server.
dbExists == db # "absent"

----------------------------------------------------------------------------
(* The MySQL server, as far as the script can tell its answers apart.      *)

\* connect(user=..., host='localhost'): the server accepts or refuses.
ConnectResults == {"OK", "ER_OTHER"}

\* cnx.database = DB_NAME: unknown database when it does not exist; any
\* other error (access denied, connection lost) is possible in both cases.
SelectResults(exists) ==
  IF exists THEN {"OK", "ER_OTHER"} ELSE {"ER_BAD_DB_ERROR", "ER_OTHER"}

\* CREATE DATABASE byfl3 DEFAULT CHARACTER SET 'utf8': fails when the
\* database exists; otherwise it is created unless the server refuses.
CreateDatabaseResults(exists) ==
  IF exists THEN {"ER_DB_CREATE_EXISTS"} ELSE {"OK", "ER_OTHER"}

\* CREATE TABLE `t` (...) under an "IF NOT EXISTS" reading: an existing
\* table is no error.
ExecuteDDLIfNotExists(t, tabs, rej) ==
  IF t \in rej THEN "ER_OTHER" ELSE "OK"

\* CREATE TABLE `t` (...) with a foreign key to table `runs`: the engine
\* refuses it while `runs` does not exist.
ExecuteDDLForeignKey(t, tabs, rej) ==
  IF t \in rej THEN "ER_OTHER"
  ELSE IF tabs[t] # "absent" THEN "ER_TABLE_EXISTS_ERROR"
  ELSE IF t # "runs" /\ tabs["runs"] = "absent" THEN "ER_OTHER"
  ELSE "OK"

\* CREATE TABLE `t` (...) ENGINE=InnoDB, the statement TABLES[t]: rejected
\* when the engine does not accept the DDL, "table exists" when the name is
\* taken, otherwise the table is created.
ExecuteDDL(t, tabs, rej) ==
  IF t \in rej THEN "ER_OTHER"
  ELSE IF tabs[t] # "absent" THEN "ER_TABLE_EXISTS_ERROR"
  ELSE "OK"

\* A statement that replaces an existing table (DROP TABLE IF EXISTS before
\* the CREATE TABLE).
TablesAfterReplace(t, tabs, res) ==
  IF res \in {"OK", "ER_TABLE_EXISTS_ERROR"}
  THEN [tabs EXCEPT ![t] = "byfl"] ELSE tabs

\* The tables of the database after TABLES[t] was executed with result res.
TablesAfter(t, tabs, res) ==
  IF res = "OK" THEN [tabs EXCEPT ![t] = "byfl"] ELSE tabs

----------------------------------------------------------------------------
(* The script.                                                             *)

PcValues ==
  {"idle", "select", "create", "reselect", "tables", "close_cursor",
   "close_cnx", "done", "halted"}

Terminated(p) == pc[p] \in {"done", "halted"}

\* The line printed after "Creating table <name>: " with every result
\* printed as OK (the else branch taken unconditionally).
StatusLineAlwaysOK(res) == "OK"

\* The line printed after "Creating table <name>: ": OK, "already exists."
\* or the engine's message.
StatusLine(res) ==
  IF res = "OK" THEN "OK"
  ELSE IF res = "ER_TABLE_EXISTS_ERROR" THEN "already exists."
  ELSE res

TypeOK ==
  /\ db \in DbStates
  /\ tables \in [TABLES -> TableStates]
  /\ rejected \subseteq TABLES
  /\ pc \in [Runs -> PcValues]
  /\ cnx \in [Runs -> {"none", "open", "closed"}]
  /\ cursor \in [Runs -> {"none", "open", "closed"}]
  /\ database \in [Runs -> {<<>>, <<DB_NAME>>}]
  /\ todo \in [Runs -> SUBSET TABLES]
  /\ exitCode \in [Runs -> {<<>>, <<0>>, <<1>>}]
  /\ preDb \in [Runs -> DbStates]
  /\ preTables \in [Runs -> [TABLES -> TableStates]]

\* Any server: without the database there are no tables in it.
Init ==
  /\ db \in DbStates
  /\ tables \in [TABLES -> TableStates]
  /\ ~dbExists => \A t \in TABLES : tables[t] = "absent"
  /\ rejected \in SUBSET TABLES
  /\ pc = [p \in Runs |-> "idle"]
  /\ cnx = [p \in Runs |-> "none"]
  /\ cursor = [p \in Runs |-> "none"]
  /\ database = [p \in Runs |-> <<>>]
  /\ todo = [p \in Runs |-> TABLES]
  /\ selectLog = [p \in Runs |-> <<>>]
  /\ createLog = [p \in Runs |-> <<>>]
  /\ ddlLog = [p \in Runs |-> [t \in TABLES |-> <<>>]]
  /\ out = [p \in Runs |-> [t \in TABLES |-> <<>>]]
  /\ exitCode = [p \in Runs |-> <<>>]
  /\ preDb = [p \in Runs |-> "absent"]
  /\ preTables = [p \in Runs |-> [t \in TABLES |-> "absent"]]

\* Lines 153-154: cnx = mysql.connector.connect(...); cursor = cnx.cursor().
\* A refused connection raises; nothing catches it and the process ends.
Connect(p) ==
  /\ pc[p] = "idle"
  /\ preDb' = [preDb EXCEPT ![p] = db]
  /\ preTables' = [preTables EXCEPT ![p] = tables]
  /\ \E res \in ConnectResults :
       IF res = "OK"
       THEN /\ cnx' = [cnx EXCEPT ![p] = "open"]
            /\ cursor' = [cursor EXCEPT ![p] = "open"]
            /\ pc' = [pc EXCEPT ![p] = "select"]
            /\ UNCHANGED exitCode
       ELSE /\ pc' = [pc EXCEPT ![p] = "halted"]
            /\ exitCode' = [exitCode EXCEPT ![p] = <<1>>]
            /\ UNCHANGED <<cnx, cursor>>
  /\ UNCHANGED <<server, database, todo, selectLog, createLog, ddlLog, out>>

\* Lines 168-176 with the errno test of line 171 left out: every selection
\* error leads to create_database.
SelectDatabaseNoErrnoTest(p) ==
  /\ pc[p] = "select"
  /\ \E res \in SelectResults(dbExists) :
       /\ selectLog' = [selectLog EXCEPT ![p] = Append(@, res)]
       /\ IF res = "OK"
          THEN /\ database' = [database EXCEPT ![p] = <<DB_NAME>>]
               /\ pc' = [pc EXCEPT ![p] = "tables"]
          ELSE /\ pc' = [pc EXCEPT ![p] = "create"]
               /\ UNCHANGED database
  /\ UNCHANGED <<server, cnx, cursor, todo, createLog, ddlLog, out, exitCode,
                 preDb, preTables>>

\* Lines 168-176 with the exit(1) of line 176 left out: after an error other
\* than unknown database the script goes on to the tables.
SelectDatabaseNoExit(p) ==
  /\ pc[p] = "select"
  /\ \E res \in SelectResults(dbExists) :
       /\ selectLog' = [selectLog EXCEPT ![p] = Append(@, res)]
       /\ IF res = "OK"
          THEN /\ database' = [database EXCEPT ![p] = <<DB_NAME>>]
               /\ pc' = [pc EXCEPT ![p] = "tables"]
          ELSE IF res = "ER_BAD_DB_ERROR"
          THEN /\ pc' = [pc EXCEPT ![p] = "create"]
               /\ UNCHANGED database
          ELSE /\ pc' = [pc EXCEPT ![p] = "tables"]
               /\ UNCHANGED database
  /\ UNCHANGED <<server, cnx, cursor, todo, createLog, ddlLog, out, exitCode,
                 preDb, preTables>>

\* Lines 168-171, 174-176: cnx.database = DB_NAME.  On ER_BAD_DB_ERROR go on
\* to create_database; on any other error print it and exit(1).
SelectDatabase(p) ==
  /\ pc[p] = "select"
  /\ \E res \in SelectResults(dbExists) :
       /\ selectLog' = [selectLog EXCEPT ![p] = Append(@, res)]
       /\ IF res = "OK"
          THEN /\ database' = [database EXCEPT ![p] = <<DB_NAME>>]
               /\ pc' = [pc EXCEPT ![p] = "tables"]
               /\ UNCHANGED exitCode
          ELSE IF res = "ER_BAD_DB_ERROR"
          THEN /\ pc' = [pc EXCEPT ![p] = "create"]
               /\ UNCHANGED <<database, exitCode>>
          ELSE /\ pc' = [pc EXCEPT ![p] = "halted"]
               /\ exitCode' = [exitCode EXCEPT ![p] = <<1>>]
               /\ UNCHANGED database
  /\ UNCHANGED <<server, cnx, cursor, todo, createLog, ddlLog, out,
                 preDb, preTables>>

\* Lines 161-167, 172: create_database(cursor).  Any error of the statement
\* is printed and followed by exit(1).
create_database(p) ==
  /\ pc[p] = "create"
  /\ \E res \in CreateDatabaseResults(dbExists) :
       /\ createLog' = [createLog EXCEPT ![p] = Append(@, res)]
       /\ IF res = "OK"
          THEN /\ db' = "utf8"
               /\ pc' = [pc EXCEPT ![p] = "reselect"]
               /\ UNCHANGED exitCode
          ELSE /\ pc' = [pc EXCEPT ![p] = "halted"]
               /\ exitCode' = [exitCode EXCEPT ![p] = <<1>>]
               /\ UNCHANGED db
  /\ UNCHANGED <<tables, rejected, cnx, cursor, database, todo, selectLog,
                 ddlLog, out, preDb, preTables>>

\* Line 173: cnx.database = DB_NAME inside the except clause.  An error
\* here is raised out of the handler; nothing catches it.
Reselect(p) ==
  /\ pc[p] = "reselect"
  /\ \E res \in SelectResults(dbExists) :
       /\ selectLog' = [selectLog EXCEPT ![p] = Append(@, res)]
       /\ IF res = "OK"
          THEN /\ database' = [database EXCEPT ![p] = <<DB_NAME>>]
               /\ pc' = [pc EXCEPT ![p] = "tables"]
               /\ UNCHANGED exitCode
          ELSE /\ pc' = [pc EXCEPT ![p] = "halted"]
               /\ exitCode' = [exitCode EXCEPT ![p] = <<1>>]
               /\ UNCHANGED database
  /\ UNCHANGED <<server, cnx, cursor, todo, createLog, ddlLog, out,
                 preDb, preTables>>

\* Lines 178-188 with a loop that gives up at the first error that is not
\* "table exists" (exit(1) after print(err)).
CreateTableAbortOnError(p, t) ==
  /\ pc[p] = "tables"
  /\ t \in todo[p]
  /\ LET res == ExecuteDDL(t, tables, rejected) IN
       /\ tables' = TablesAfter(t, tables, res)
       /\ ddlLog' = [ddlLog EXCEPT ![p][t] = Append(@, res)]
       /\ out' = [out EXCEPT ![p][t] = Append(@, StatusLine(res))]
       /\ todo' = [todo EXCEPT ![p] = @ \ {t}]
       /\ IF res \in {"OK", "ER_TABLE_EXISTS_ERROR"}
          THEN /\ pc' = [pc EXCEPT ![p] =
                           IF todo[p] = {t} THEN "close_cursor" ELSE "tables"]
               /\ UNCHANGED exitCode
          ELSE /\ pc' = [pc EXCEPT ![p] = "halted"]
               /\ exitCode' = [exitCode EXCEPT ![p] = <<1>>]
  /\ UNCHANGED <<db, rejected, cnx, cursor, database, selectLog,
                 createLog, preDb, preTables>>

\* Lines 178-188, one iteration of the loop over TABLES.iteritems(), for any
\* entry not yet visited: execute the DDL and print the status line.  After
\* the last entry the script goes on to line 190.
CreateTable(p, t) ==
  /\ pc[p] = "tables"
  /\ t \in todo[p]
  /\ LET res == ExecuteDDL(t, tables, rejected) IN
       /\ tables' = TablesAfter(t, tables, res)
       /\ ddlLog' = [ddlLog EXCEPT ![p][t] = Append(@, res)]
       /\ out' = [out EXCEPT ![p][t] = Append(@, StatusLine(res))]
  /\ todo' = [todo EXCEPT ![p] = @ \ {t}]
  /\ pc' = [pc EXCEPT ![p] =
              IF todo[p] = {t} THEN "close_cursor" ELSE "tables"]
  /\ UNCHANGED <<db, rejected, cnx, cursor, database, selectLog,
                 createLog, exitCode, preDb, preTables>>

\* Line 190: cursor.close().
CloseCursor(p) ==
  /\ pc[p] = "close_cursor"
  /\ cursor' = [cursor EXCEPT ![p] = "closed"]
  /\ pc' = [pc EXCEPT ![p] = "close_cnx"]
  /\ UNCHANGED <<server, cnx, database, todo, selectLog, createLog, ddlLog,
                 out, exitCode, preDb, preTables>>

\* Line 191 followed by an exit status that tells whether a table failed.
CloseCnxEscalate(p) ==
  /\ pc[p] = "close_cnx"
  /\ cnx' = [cnx EXCEPT ![p] = "closed"]
  /\ pc' = [pc EXCEPT ![p] = "done"]
  /\ exitCode' = [exitCode EXCEPT ![p] =
                    IF \E t \in TABLES : out[p][t] \notin {<<"OK">>, <<"already exists.">>}
                    THEN <<1>> ELSE <<0>>]
  /\ UNCHANGED <<server, cursor, database, todo, selectLog, createLog,
                 ddlLog, out, preDb, preTables>>

\* Line 191: cnx.close(), and the script ends.
CloseCnx(p) ==
  /\ pc[p] = "close_cnx"
  /\ cnx' = [cnx EXCEPT ![p] = "closed"]
  /\ pc' = [pc EXCEPT ![p] = "done"]
  /\ exitCode' = [exitCode EXCEPT ![p] = <<0>>]
  /\ UNCHANGED <<server, cursor, database, todo, selectLog, createLog,
                 ddlLog, out, preDb, preTables>>

\* A run after its connection was opened: one step of the script.
Step(p) ==
  \/ SelectDatabase(p)
  \/ create_database(p)
  \/ Reselect(p)
  \/ \E t \in TABLES : CreateTable(p, t)
  \/ CloseCursor(p)
  \/ CloseCnx(p)

\* Runs one after the other: a run starts when the runs before it are over.
StartInSequence(p) ==
  /\ \A q \in Runs : q < p => Terminated(q)
  /\ Connect(p)

\* Runs at the same time (several provisioners against one server); they
\* are alike, so they are numbered in the order they start.
StartConcurrently(p) ==
  /\ \A q \in Runs : q < p => pc[q] # "idle"
  /\ Connect(p)

Next ==
  \E p \in Runs :
    \/ StartInSequence(p)
    \/ SelectDatabase(p)
    \/ create_database(p)
    \/ Reselect(p)
    \/ \E t \in TABLES : CreateTable(p, t)
    \/ CloseCursor(p)
    \/ CloseCnx(p)

NextConc ==
  \E p \in Runs :
    \/ StartConcurrently(p)
    \/ SelectDatabase(p)
    \/ create_database(p)
    \/ Reselect(p)
    \/ \E t \in TABLES : CreateTable(p, t)
    \/ CloseCursor(p)
    \/ CloseCnx(p)

\* The script run NumRuns times in sequence.
Spec == Init /\ [][Next]_vars

\* NumRuns provisioners running against the same server at the same time.
SpecConc == Init /\ [][NextConc]_vars

----------------------------------------------------------------------------
(* Properties.                                                             *)

\* The loop over TABLES has visited every entry.
LoopDone(p) == pc[p] \in {"close_cursor", "close_cnx", "done"}

\* The ensure-database step succeeded: DB_NAME is the selected database.
Ensured(p) == database[p] = <<DB_NAME>>

\* A status line that reports a failure.
IsFailure(line) == line \notin {"OK", "already exists."}

\* The schema a run leaves that started on tables pre and visited every
\* entry of TABLES: what was there, plus every accepted definition.
Provisioned(pre) ==
  [t \in TABLES |->
     IF pre[t] = "absent" /\ t \notin rejected THEN "byfl" ELSE pre[t]]

\* The status line of table t in run p, told from the server state at the
\* start of the run alone.
ExpectedLine(p, t) ==
  IF t \in rejected THEN "ER_OTHER"
  ELSE IF preTables[p][t] # "absent" THEN "already exists."
  ELSE "OK"

\* C1. Idempotence: when run 1 starts on a server without the database and
\* runs to its end, a second run after it leaves the schema as run 1 left
\* it, issues no CREATE DATABASE, creates no table, and, when it reaches its
\* end, reports "already exists." once for every definition the engine
\* accepts (all of them for the DDL of the source).
C1_Idempotent ==
  (pc[1] = "done" /\ preDb[1] = "absent" /\ Terminated(2)) =>
    /\ db = preDb[2] /\ tables = preTables[2]
    /\ db = "utf8" /\ tables = Provisioned(preTables[1])
    /\ createLog[2] = <<>>
    /\ \A t \in TABLES : ddlLog[2][t] # <<"OK">>
    /\ pc[2] = "done" =>
         \A t \in TABLES \ rejected : out[2][t] = <<"already exists.">>

\* Two whole runs from an empty server, every definition accepted.
C1_Witness ==
  /\ preDb[1] = "absent" /\ pc[1] = "done" /\ pc[2] = "done"
  /\ rejected = {}
  /\ \A t \in TABLES : out[1][t] = <<"OK">> /\ out[2][t] = <<"already exists.">>

\* C2 as stated: after "unknown database" exactly one CREATE DATABASE is
\* issued, the database is selected and every definition is executed; after
\* a successful first selection no CREATE DATABASE is issued.
C2_AsStated ==
  \A p \in Runs :
    (Terminated(p) /\ selectLog[p] # <<>>) =>
      /\ selectLog[p][1] = "ER_BAD_DB_ERROR" =>
           /\ Len(createLog[p]) = 1
           /\ Ensured(p)
           /\ \A t \in TABLES : ddlLog[p][t] # <<>>
      /\ selectLog[p][1] = "OK" => createLog[p] = <<>>

\* C2, amended. After "unknown database" exactly one CREATE DATABASE is
\* issued, and it leaves the database with character set utf8 when it
\* succeeds; when it and the selection after it succeed, the database is
\* selected and every definition is executed by the end of the run.  After
\* a successful first selection no CREATE DATABASE is issued at any point.
C2_EnsureDatabase ==
  \A p \in Runs :
    selectLog[p] # <<>> =>
      /\ selectLog[p][1] = "OK" => createLog[p] = <<>>
      /\ selectLog[p][1] = "ER_BAD_DB_ERROR" =>
           /\ Len(createLog[p]) = (IF pc[p] = "create" THEN 0 ELSE 1)
           /\ createLog[p] = <<"OK">> => db = "utf8"
           /\ (createLog[p] = <<"OK">> /\ Len(selectLog[p]) = 2
                 /\ selectLog[p][2] = "OK") =>
                /\ Ensured(p)
                /\ pc[p] \in {"tables", "close_cursor", "close_cnx", "done"}
                /\ LoopDone(p) => \A t \in TABLES : Len(ddlLog[p][t]) = 1
      /\ selectLog[p][1] = "ER_OTHER" => createLog[p] = <<>>

\* A run that found no database, created it and visited every table.
C2_Witness ==
  \E p \in Runs :
    /\ selectLog[p] = <<"ER_BAD_DB_ERROR", "OK">>
    /\ createLog[p] = <<"OK">>
    /\ pc[p] = "done"
    /\ \A t \in TABLES : Len(ddlLog[p][t]) = 1

\* C3. Per-table failure isolation: a rejected definition gets one failure
\* report and does not halt the run; when the loop is over the failure
\* reports are those of the rejected definitions, one each, and every other
\* definition was executed and, if its table was absent before, created.
C3_FailureIsolation ==
  \A p \in Runs :
    /\ (\E t \in TABLES : ddlLog[p][t] # <<>>) => pc[p] # "halted"
    /\ LoopDone(p) =>
         /\ {t \in TABLES : \E i \in 1..Len(out[p][t]) : IsFailure(out[p][t][i])}
              = rejected
         /\ \A t \in rejected : Len(out[p][t]) = 1
         /\ \A t \in TABLES \ rejected :
              /\ Len(ddlLog[p][t]) = 1
              /\ preTables[p][t] = "absent" =>
                   ddlLog[p][t] = <<"OK">> /\ tables[t] = "byfl"

\* One rejected definition, reported before the others were visited; the
\* others were absent and are created.
C3_Witness ==
  \E p \in Runs : \E b \in TABLES :
    /\ rejected = {b}
    /\ pc[p] = "done"
    /\ IsFailure(out[p][b][1])
    /\ \A t \in TABLES \ {b} :
         preTables[p][t] = "absent" /\ out[p][t] = <<"OK">> /\ tables[t] = "byfl"

\* The connection could not be opened, the first selection failed with an
\* error other than unknown database, or CREATE DATABASE failed.
Fatal(p) ==
  \/ pc[p] # "idle" /\ cnx[p] = "none"
  \/ selectLog[p] # <<>> /\ selectLog[p][1] \notin {"OK", "ER_BAD_DB_ERROR"}
  \/ createLog[p] # <<>> /\ createLog[p][1] # "OK"

\* C4. Fatal failures are terminal: after any of them the run is halted with
\* exit status 1 and has executed no table DDL.
C4_FatalTerminal ==
  \A p \in Runs :
    Fatal(p) =>
      /\ pc[p] = "halted"
      /\ exitCode[p] = <<1>>
      /\ \A t \in TABLES : ddlLog[p][t] = <<>> /\ out[p][t] = <<>>

\* One run was halted by a failed CREATE DATABASE, another by a failed
\* first selection.
C4_Witness ==
  /\ \E p \in Runs : pc[p] = "halted" /\ createLog[p] = <<"ER_OTHER">>
  /\ \E p \in Runs : pc[p] = "halted" /\ selectLog[p] = <<"ER_OTHER">>

\* C5 as stated: no run is over with its cursor or its connection open.
C5_Released ==
  \A p \in Runs :
    Terminated(p) => cnx[p] # "open" /\ cursor[p] # "open"

\* C6 as stated: a CREATE DATABASE that fails because the database exists
\* does not halt the run.
C6_CreateExistsNotFatal ==
  \A p \in Runs :
    createLog[p] = <<"ER_DB_CREATE_EXISTS">> =>
      pc[p] # "halted" /\ exitCode[p] # <<1>>

\* C7. Exit status after the table phase: once the database is selected the
\* run is never halted and can always take its next step until it is done;
\* it ends with exit status 0 and one status line per definition, whatever
\* the lines say.
C7_ExitStatus ==
  \A p \in Runs :
    Ensured(p) =>
      /\ pc[p] \in {"tables", "close_cursor", "close_cnx", "done"}
      /\ pc[p] = "done" =>
           /\ exitCode[p] = <<0>>
           /\ \A t \in TABLES : Len(out[p][t]) = 1
      /\ pc[p] # "done" => exitCode[p] = <<>> /\ ENABLED Step(p)

\* A run that ended although every definition failed.
C7_Witness ==
  \E p \in Runs :
    /\ pc[p] = "done" /\ exitCode[p] = <<0>>
    /\ \A t \in TABLES : Len(out[p][t]) = 1 /\ IsFailure(out[p][t][1])

\* C8. Exactly-once table processing: a definition is executed at most once,
\* exactly once when the loop is over, with one status line per execution:
\* OK iff the DDL succeeded, "already exists." iff the engine said the table
\* exists, the engine's message otherwise; an accepted definition whose table
\* was absent before the run ends OK with its table in the database.
C8_ExactlyOnce ==
  \A p \in Runs : \A t \in TABLES :
    /\ Len(ddlLog[p][t]) = (IF Ensured(p) /\ t \notin todo[p] THEN 1 ELSE 0)
    /\ Len(out[p][t]) = Len(ddlLog[p][t])
    /\ LoopDone(p) => todo[p] = {}
    /\ ddlLog[p][t] # <<>> =>
         /\ out[p][t][1] = "OK" <=> ddlLog[p][t][1] = "OK"
         /\ out[p][t][1] = "already exists."
              <=> ddlLog[p][t][1] = "ER_TABLE_EXISTS_ERROR"
         /\ IsFailure(out[p][t][1]) => out[p][t][1] = ddlLog[p][t][1]
         /\ (preTables[p][t] = "absent" /\ t \notin rejected) =>
              out[p][t] = <<"OK">> /\ tables[t] = "byfl"

\* One run with all three outcomes.
C8_Witness ==
  \E p \in Runs : \E t1, t2, t3 \in TABLES :
    /\ pc[p] = "done"
    /\ out[p][t1] = <<"OK">> /\ tables[t1] = "byfl"
    /\ out[p][t2] = <<"already exists.">> /\ tables[t2] = "other"
    /\ out[p][t3] = <<"ER_OTHER">>

\* C9. Order independence: whichever entries the loop has visited so far,
\* the status line of a visited table is the one told from the server state
\* at the start of the run and the rejected definitions alone, and when the
\* loop is over the tables are that state plus every accepted definition.
C9_OrderIndependent ==
  \A p \in Runs :
    /\ \A t \in TABLES :
         out[p][t] # <<>> => out[p][t] = <<ExpectedLine(p, t)>>
    /\ (LoopDone(p) /\ \A q \in Runs : q > p => pc[q] = "idle") =>
         tables = Provisioned(preTables[p])

\* The loop visited `runs` last, after creating another table.
C9_Witness ==
  \E p \in Runs : \E t \in TABLES \ {"runs"} :
    /\ pc[p] = "tables" /\ todo[p] = {"runs"}
    /\ out[p][t] = <<"OK">>
    /\ preTables[p]["runs"] = "absent" /\ "runs" \notin rejected

\* C10. The provisioner only adds: in every step the database, once it
\* exists, and each table, once it exists, stay as they are, and no run
\* creates the database more than once.
C10_OnlyAdds ==
  /\ [][/\ db # "absent" => db' = db
        /\ \A t \in TABLES : tables[t] # "absent" => tables'[t] = tables[t]]_vars
  /\ [](\A p \in Runs :
          Cardinality({i \in 1..Len(createLog[p]) : createLog[p][i] = "OK"}) <= 1)

\* A run skipped a table somebody else defined and created another one.
C10_Witness ==
  \E p \in Runs : \E t, u \in TABLES :
    /\ pc[p] = "done"
    /\ preTables[p][t] = "other" /\ tables[t] = "other"
    /\ out[p][t] = <<"already exists.">>
    /\ preTables[p][u] = "absent" /\ tables[u] = "byfl"

====
